---- MODULE Spec2Model ----
(***************************************************************************)
(* A model of personal_finance_tracker.py: the in-memory collection of     *)
(* Transaction records with add / delete-by-id, the pure query and report  *)
(* functions (list_transactions, balance_summary) and the persistence      *)
(* functions (save_transactions, load_transactions) over a small file      *)
(* system.                                                                 *)
(*                                                                         *)
(* Representation of Python values:                                        *)
(*   - a Transaction is a record [id, date, amount, category, ttype,       *)
(*     description];                                                       *)
(*   - amount (a float) is an integer number of cents;                     *)
(*   - a str (date, category, ttype, description) is the sequence of its   *)
(*     character codes, so that str.lower(), the ordering of strings,      *)
(*     strptime and int()/float() of a string are computed, not assumed;   *)
(*     dates are zero-padded YYYY-MM-DD strings, as input_date's users     *)
(*     type them.                                                          *)
(***************************************************************************)
EXTENDS Integers, Sequences, FiniteSets, TLC

VARIABLES
    transactions,   \* the caller's list of Transaction (menu: `transactions`)
    op,             \* the operation performed last
    args,           \* the arguments it was called with
    ret,            \* what it returned (or raised)
    files,          \* the file system: path -> file (or NoFile)
    dirWritable,    \* directory -> whether files can be created in it
    default_save_file,  \* the module's global DEFAULT_SAVE_FILE as it is now
    pc              \* where the program is (shell or menu loop) and its starts so far

vars == <<transactions, op, args, ret, files, dirWritable, default_save_file, pc>>

----------------------------------------------------------------------------
(* Bounds of the model *)

\* largest id add_transaction is allowed to assign in the model
MaxId == 9
\* longest collection the menu's add is allowed to extend to in the model
MaxLen == 4
\* longest collection drawn as the input of a pure function
MaxTx == 3

----------------------------------------------------------------------------
(* Generic helpers on sequences and integers *)

Range(s) == {s[i] : i \in 1..Len(s)}

Reverse(s) == [i \in 1..Len(s) |-> s[Len(s) + 1 - i]]

abs(x) == IF x < 0 THEN -x ELSE x

RECURSIVE SumSeq(_)
\* Python's sum() over a sequence of numbers
SumSeq(s) == IF s = <<>> THEN 0 ELSE Head(s) + SumSeq(Tail(s))

RECURSIVE MapAmount(_)
MapAmount(s) == IF s = <<>> THEN <<>> ELSE <<Head(s).amount>> \o MapAmount(Tail(s))

----------------------------------------------------------------------------
(* Python strings as sequences of character codes *)

\* str.lower() restricted to ASCII: 'A'..'Z' (65..90) -> 'a'..'z'
lower(s) == [i \in 1..Len(s) |-> IF s[i] >= 65 /\ s[i] <= 90 THEN s[i] + 32 ELSE s[i]]

RECURSIVE str_lt(_, _)
\* Python's < on str: lexicographic by code point, a proper prefix is smaller
str_lt(a, b) ==
    IF b = <<>> THEN FALSE
    ELSE IF a = <<>> THEN TRUE
    ELSE IF Head(a) # Head(b) THEN Head(a) < Head(b)
    ELSE str_lt(Tail(a), Tail(b))

IsDigit(c) == c >= 48 /\ c <= 57

RECURSIVE DigitsValue(_)
\* the number a non-empty string of decimal digits denotes
DigitsValue(s) ==
    IF s = <<>> THEN 0 ELSE DigitsValue(SubSeq(s, 1, Len(s) - 1)) * 10 + (s[Len(s)] - 48)

\* datetime.strptime(date, "%Y-%m-%d") of a YYYY-MM-DD string, as a number
\* ordered like the datetime
strptime(date) ==
    DigitsValue(SubSeq(date, 1, 4)) * 10000
        + DigitsValue(SubSeq(date, 6, 7)) * 100
        + DigitsValue(SubSeq(date, 9, 10))

\* the string literals of the program, as character codes
ttype_income == <<105, 110, 99, 111, 109, 101>>  \* 'income'
ttype_expense == <<101, 120, 112, 101, 110, 115, 101>>  \* 'expense'
ttype_transfer == <<116, 114, 97, 110, 115, 102, 101, 114>>  \* 'transfer'
Salary == <<83, 97, 108, 97, 114, 121>>  \* 'Salary'
Groceries == <<71, 114, 111, 99, 101, 114, 105, 101, 115>>  \* 'Groceries'
Utilities == <<85, 116, 105, 108, 105, 116, 105, 101, 115>>  \* 'Utilities'
Shopping == <<83, 104, 111, 112, 112, 105, 110, 103>>  \* 'Shopping'
Coffee == <<67, 111, 102, 102, 101, 101>>  \* 'Coffee'
Rent == <<82, 101, 110, 116>>  \* 'Rent'
Snacks == <<83, 110, 97, 99, 107, 115>>  \* 'Snacks'
Pay == <<80, 97, 121>>  \* 'Pay'
Food == <<70, 111, 111, 100>>  \* 'Food'
Refund == <<82, 101, 102, 117, 110, 100>>  \* 'Refund'
EmptyStr == <<>>  \* ''
Monthly_salary == <<77, 111, 110, 116, 104, 108, 121, 32, 115, 97, 108, 97, 114, 121>>  \* 'Monthly salary'
Walmart_shopping == <<87, 97, 108, 109, 97, 114, 116, 32, 115, 104, 111, 112, 112, 105, 110, 103>>  \* 'Walmart shopping'
Electricity_bill == <<69, 108, 101, 99, 116, 114, 105, 99, 105, 116, 121, 32, 98, 105, 108, 108>>  \* 'Electricity bill'
New_jacket == <<78, 101, 119, 32, 106, 97, 99, 107, 101, 116>>  \* 'New jacket'
Coffee_shop == <<67, 111, 102, 102, 101, 101, 32, 115, 104, 111, 112>>  \* 'Coffee shop'
March_rent == <<77, 97, 114, 99, 104, 32, 114, 101, 110, 116>>  \* 'March rent'
Late_night_snacks == <<76, 97, 116, 101, 32, 110, 105, 103, 104, 116, 32, 115, 110, 97, 99, 107, 115>>  \* 'Late night snacks'
d2024_12_31 == <<50, 48, 50, 52, 45, 49, 50, 45, 51, 49>>  \* '2024-12-31'
d2025_01_01 == <<50, 48, 50, 53, 45, 48, 49, 45, 48, 49>>  \* '2025-01-01'
d2025_01_02 == <<50, 48, 50, 53, 45, 48, 49, 45, 48, 50>>  \* '2025-01-02'
d2025_01_03 == <<50, 48, 50, 53, 45, 48, 49, 45, 48, 51>>  \* '2025-01-03'
d2025_01_05 == <<50, 48, 50, 53, 45, 48, 49, 45, 48, 53>>  \* '2025-01-05'
d2025_01_10 == <<50, 48, 50, 53, 45, 48, 49, 45, 49, 48>>  \* '2025-01-10'
d2025_02_01 == <<50, 48, 50, 53, 45, 48, 50, 45, 48, 49>>  \* '2025-02-01'
d2025_02_12 == <<50, 48, 50, 53, 45, 48, 50, 45, 49, 50>>  \* '2025-02-12'
d2025_02_20 == <<50, 48, 50, 53, 45, 48, 50, 45, 50, 48>>  \* '2025-02-20'
d2025_03_01 == <<50, 48, 50, 53, 45, 48, 51, 45, 48, 49>>  \* '2025-03-01'
d2025_03_14 == <<50, 48, 50, 53, 45, 48, 51, 45, 49, 52>>  \* '2025-03-14'
d2025_03_20 == <<50, 48, 50, 53, 45, 48, 51, 45, 50, 48>>  \* '2025-03-20'

----------------------------------------------------------------------------
(* Transaction and the core data operations *)

Transaction(id, date, amount, category, ttype, description) ==
    [id |-> id, date |-> date, amount |-> amount, category |-> category,
     ttype |-> ttype, description |-> description]

\* a plausible bug: the first record is taken to hold the largest id
max_id_first(txs) == IF txs = <<>> THEN 0 ELSE Head(txs).id

RECURSIVE max_id(_)
\* max((t.id for t in transactions), default=0)
max_id(txs) ==
    IF txs = <<>> THEN 0
    ELSE LET m == max_id(Tail(txs)) IN IF Head(txs).id > m THEN Head(txs).id ELSE m

\* a plausible bug: the next id is the length of the list plus one
next_id_len(txs) == Len(txs) + 1

next_id(txs) == max_id(txs) + 1

\* add_transaction: the new record and the list after the append
add_transaction(txs, date, amount, category, ttype, description) ==
    LET tx == Transaction(next_id(txs), date, amount, category, ttype, description)
    IN [tx |-> tx, transactions |-> Append(txs, tx)]

NoneValue == [none |-> TRUE]

RECURSIVE find_by_id(_, _)
\* the first record whose id is tid, or None
find_by_id(txs, tid) ==
    IF txs = <<>> THEN NoneValue
    ELSE IF Head(txs).id = tid THEN Head(txs)
    ELSE find_by_id(Tail(txs), tid)

RECURSIVE list_remove(_, _)
\* list.remove(t): drops the first element equal to t
list_remove(s, t) ==
    IF s = <<>> THEN <<>>
    ELSE IF Head(s) = t THEN Tail(s)
    ELSE <<Head(s)>> \o list_remove(Tail(s), t)

\* a plausible bug: the id is used as the position to delete
delete_by_index(txs, tid) ==
    IF tid \in 1..Len(txs)
    THEN [found |-> TRUE,
          transactions |-> SubSeq(txs, 1, tid - 1) \o SubSeq(txs, tid + 1, Len(txs))]
    ELSE [found |-> FALSE, transactions |-> txs]

\* menu choice 12: find_by_id, then transactions.remove(t) or 'ID not found.'
delete_by_id(txs, tid) ==
    LET t == find_by_id(txs, tid)
    IN IF t # NoneValue
       THEN [found |-> TRUE, transactions |-> list_remove(txs, t)]
       ELSE [found |-> FALSE, transactions |-> txs]


sample_data ==
    LET a1 == add_transaction(<<>>, d2025_01_03, 300000, Salary, ttype_income, Monthly_salary).transactions
        a2 == add_transaction(a1, d2025_01_05, 4520, Groceries, ttype_expense, Walmart_shopping).transactions
        a3 == add_transaction(a2, d2025_01_10, 12000, Utilities, ttype_expense, Electricity_bill).transactions
        a4 == add_transaction(a3, d2025_02_01, 300000, Salary, ttype_income, Monthly_salary).transactions
        a5 == add_transaction(a4, d2025_02_12, 25000, Shopping, ttype_expense, New_jacket).transactions
        a6 == add_transaction(a5, d2025_02_20, 1200, Coffee, ttype_expense, Coffee_shop).transactions
        a7 == add_transaction(a6, d2025_03_01, 300000, Salary, ttype_income, Monthly_salary).transactions
    IN add_transaction(a7, d2025_03_14, 60000, Rent, ttype_expense, March_rent).transactions

----------------------------------------------------------------------------
(* Paths and the file system *)

\* a path is its directory and its base name
join(dir, base) == [dir |-> dir, base |-> base]
basename(path) == path.base
\* os.path.dirname(filename) or "."
dirname_or_dot(path) == IF path.dir = "" THEN "." ELSE path.dir

gettempdir == "/tmp"

\* the value of the module's DEFAULT_SAVE_FILE when the functions are defined
DEFAULT_SAVE_FILE == join(gettempdir, "transactions.json")

Dirs == {"/data", gettempdir}

\* a user's file outside the temp directory, its temp-directory variant and
\* the default file
Paths == {join("/data", "tx.json"), join(gettempdir, "tx.json"), DEFAULT_SAVE_FILE}

\* no program is running and none has been started
NotRunning == [at |-> "shell", runs |-> 0]

----------------------------------------------------------------------------
(* The collection under add and delete-by-id *)

\* what the menu's prompts can pass to add_transaction (choice 1)
AddInputs ==
    { [date |-> d2025_01_01, amount |-> 100000, category |-> Salary,
       ttype |-> ttype_income, description |-> Pay],
      [date |-> d2025_01_02, amount |-> -20000, category |-> Groceries,
       ttype |-> ttype_expense, description |-> Food] }

NoFile == [exists |-> FALSE]

IdleFiles == <<>>

\* a collection as load_transactions returns it from a file whose records are
\* not in id order
LoadedTxs ==
    << Transaction(3, d2025_01_02, -20000, Groceries, ttype_expense, Food),
       Transaction(1, d2025_01_01, 100000, Salary, ttype_income, Pay) >>

InitColl ==
    /\ transactions \in {<<>>, sample_data, LoadedTxs}
    /\ op = "start"
    /\ args = <<>>
    /\ ret = <<>>
    /\ files = IdleFiles
    /\ dirWritable = <<>>
    /\ default_save_file = DEFAULT_SAVE_FILE
    /\ pc = NotRunning

Add ==
    /\ next_id(transactions) <= MaxId
    /\ Len(transactions) < MaxLen
    /\ \E in \in AddInputs :
        LET r == add_transaction(transactions, in.date, in.amount, in.category,
                                 in.ttype, in.description)
        IN /\ transactions' = r.transactions
           /\ op' = "add"
           /\ args' = in
           /\ ret' = r.tx
    /\ UNCHANGED <<files, dirWritable, default_save_file, pc>>

\* run_self_tests: one more record added to the 8 sample records
SelfTestAdd ==
    /\ transactions = sample_data
    /\ LET in == [date |-> d2025_03_20, amount |-> 5000, category |-> Snacks,
                  ttype |-> ttype_expense, description |-> Late_night_snacks]
           r == add_transaction(transactions, in.date, in.amount, in.category,
                                in.ttype, in.description)
       IN /\ transactions' = r.transactions
          /\ op' = "add"
          /\ args' = in
          /\ ret' = r.tx
    /\ UNCHANGED <<files, dirWritable, default_save_file, pc>>

Delete ==
    /\ \E tid \in 0..(MaxId + 1) :
        LET r == delete_by_id(transactions, tid)
        IN /\ transactions' = r.transactions
           /\ op' = "delete"
           /\ args' = [tid |-> tid]
           /\ ret' = [found |-> r.found]
    /\ UNCHANGED <<files, dirWritable, default_save_file, pc>>

NextColl == Add \/ SelfTestAdd \/ Delete

SpecColl == InitColl /\ [][NextColl]_vars

----------------------------------------------------------------------------
(* list_transactions and balance_summary *)

\* the sort keys a caller can pass; "none" stands for None, and any value that
\* is not date, amount or category sorts by id
SortKeys == {"none", "id", "date", "amount", "category"}

\* keyfn(a) < keyfn(b) for the keyfn list_transactions picks for sort_key
key_lt(sort_key, a, b) ==
    IF sort_key = "date" THEN strptime(a.date) < strptime(b.date)
    ELSE IF sort_key = "amount" THEN a.amount < b.amount
    ELSE IF sort_key = "category" THEN str_lt(lower(a.category), lower(b.category))
    ELSE a.id < b.id

RECURSIVE insert_stable(_, _, _)
\* x placed after every element whose key is not greater than its own
insert_stable(sort_key, s, x) ==
    IF s = <<>> THEN <<x>>
    ELSE IF key_lt(sort_key, x, Head(s)) THEN <<x>> \o s
    ELSE <<Head(s)>> \o insert_stable(sort_key, Tail(s), x)

RECURSIVE stable_sort(_, _)
\* the stable ascending sort of list.sort
stable_sort(sort_key, s) ==
    IF s = <<>> THEN <<>>
    ELSE insert_stable(sort_key, stable_sort(sort_key, SubSeq(s, 1, Len(s) - 1)), s[Len(s)])

\* a plausible bug: reverse=True returns the ascending result read backwards
sorted_flip(s, sort_key, reverse) ==
    IF reverse THEN Reverse(stable_sort(sort_key, s)) ELSE stable_sort(sort_key, s)

\* sorted(s, key=keyfn, reverse=reverse): with reverse the list is reversed,
\* sorted stably and reversed again, which keeps equal keys in input order
sorted(s, sort_key, reverse) ==
    IF reverse THEN Reverse(stable_sort(sort_key, Reverse(s))) ELSE stable_sort(sort_key, s)

list_transactions(txs, sort_key, reverse) == sorted(txs, sort_key, reverse)

IsIncome(t) == t.ttype = ttype_income
IsExpensePos(t) == t.ttype = ttype_expense /\ t.amount >= 0
IsExpenseNeg(t) == t.ttype = ttype_expense /\ t.amount < 0
IsOtherNeg(t) == t.ttype # ttype_income /\ t.amount < 0

\* a plausible bug fix gone wrong: the second pass over negative amounts dropped
balance_summary_once(txs) ==
    LET income == SumSeq(MapAmount(SelectSeq(txs, IsIncome)))
        expenses == SumSeq(MapAmount(SelectSeq(txs, IsExpensePos)))
                    + (-SumSeq(MapAmount(SelectSeq(txs, IsExpenseNeg))))
    IN [income |-> income, expenses |-> expenses, savings |-> income - expenses]

balance_summary(txs) ==
    LET income == SumSeq(MapAmount(SelectSeq(txs, IsIncome)))
        expenses_pos == SumSeq(MapAmount(SelectSeq(txs, IsExpensePos)))
        expenses_neg == -SumSeq(MapAmount(SelectSeq(txs, IsExpenseNeg)))
        other_neg_expenses == -SumSeq(MapAmount(SelectSeq(txs, IsOtherNeg)))
        expenses == IF other_neg_expenses # 0
                    THEN expenses_pos + expenses_neg + other_neg_expenses
                    ELSE expenses_pos + expenses_neg
    IN [income |-> income, expenses |-> expenses, savings |-> income - expenses]

\* totals[month] = totals.get(month, 0) + amount on a dict kept as the
\* sequence of its <<key, value>> items in insertion order
dict_add(totals, month, amount) ==
    IF \E i \in 1..Len(totals) : totals[i][1] = month
    THEN [i \in 1..Len(totals) |->
            IF totals[i][1] = month THEN <<month, totals[i][2] + amount>> ELSE totals[i]]
    ELSE Append(totals, <<month, amount>>)

RECURSIVE accumulate_months(_, _)
\* the loop of monthly_spending: records that are not expenses are passed
\* over, the others add abs(amount) under the first 7 characters of the date
accumulate_months(txs, totals) ==
    IF txs = <<>> THEN totals
    ELSE LET t == Head(txs)
         IN IF t.ttype # ttype_expense THEN accumulate_months(Tail(txs), totals)
            ELSE accumulate_months(Tail(txs),
                                   dict_add(totals, SubSeq(t.date, 1, 7), abs(t.amount)))

\* (month, total) < (month, total) as Python compares tuples
item_lt(a, b) == IF a[1] # b[1] THEN str_lt(a[1], b[1]) ELSE a[2] < b[2]

RECURSIVE insert_item(_, _)
insert_item(s, x) ==
    IF s = <<>> THEN <<x>>
    ELSE IF item_lt(x, Head(s)) THEN <<x>> \o s
    ELSE <<Head(s)>> \o insert_item(Tail(s), x)

RECURSIVE sorted_items(_)
\* sorted(totals.items())
sorted_items(items) ==
    IF items = <<>> THEN <<>>
    ELSE insert_item(sorted_items(SubSeq(items, 1, Len(items) - 1)), items[Len(items)])

\* a plausible bug: the totals are returned in the order the months were met
monthly_spending_unsorted(txs) == accumulate_months(txs, <<>>)

\* monthly_spending: the items of the returned dict, in its order
monthly_spending(txs) == sorted_items(accumulate_months(txs, <<>>))

\* the records the pure functions are applied to: the two records of the
\* self test's txs2, and records that tie with them on amount, date and
\* lower-cased category, of a third type, a negative income, and an expense of
\* another month
groceries_lc == lower(Groceries)

TxPool ==
    { Transaction(1, d2025_01_01, 100000, Salary, ttype_income, Pay),
      Transaction(2, d2025_01_02, -20000, Groceries, ttype_expense, Food),
      Transaction(3, d2025_01_02, 100000, groceries_lc, ttype_expense, EmptyStr),
      Transaction(4, d2025_01_01, -20000, Rent, ttype_transfer, EmptyStr),
      Transaction(2, d2024_12_31, -5000, Salary, ttype_income, Refund),
      Transaction(5, d2025_02_12, 25000, Shopping, ttype_expense, New_jacket) }

InitQuery ==
    /\ transactions \in UNION {[1..n -> TxPool] : n \in 0..MaxTx}
    /\ op = "start"
    /\ args = <<>>
    /\ ret = <<>>
    /\ files = IdleFiles
    /\ dirWritable = <<>>
    /\ default_save_file = DEFAULT_SAVE_FILE
    /\ pc = NotRunning

List ==
    /\ \E sort_key \in SortKeys, reverse \in BOOLEAN :
        /\ op' = "list"
        /\ args' = [sort_key |-> sort_key, reverse |-> reverse]
        /\ ret' = list_transactions(transactions, sort_key, reverse)
    /\ UNCHANGED <<transactions, files, dirWritable, default_save_file, pc>>

Balance ==
    /\ op' = "balance"
    /\ args' = <<>>
    /\ ret' = balance_summary(transactions)
    /\ UNCHANGED <<transactions, files, dirWritable, default_save_file, pc>>

\* menu choice 8: mt = monthly_spending(transactions)
Monthly ==
    /\ op' = "monthly"
    /\ args' = <<>>
    /\ ret' = monthly_spending(transactions)
    /\ UNCHANGED <<transactions, files, dirWritable, default_save_file, pc>>

NextQuery == List \/ Balance \/ Monthly

SpecQuery == InitQuery /\ [][NextQuery]_vars

----------------------------------------------------------------------------
(* JSON documents and files *)

\* JSON values
JInt(n) == [t |-> "int", n |-> n]
\* a JSON number with a fraction; x counts cents
JFloat(x) == [t |-> "float", x |-> x]
JStr(s) == [t |-> "str", s |-> s]
JNull == [t |-> "null"]
JArray(items) == [t |-> "array", items |-> items]
JObject(members) == [t |-> "object", members |-> members]

\* the text of a file: a JSON document, or text json.load rejects
JsonText(doc) == [valid |-> TRUE, doc |-> doc]
InvalidJson == [valid |-> FALSE]

\* a file with its access mode: "rw", "r" (read-only) or "none" (open fails
\* with OSError either way: no permission, or a directory of that name)
File(mode, text) == [exists |-> TRUE, mode |-> mode, text |-> text]

\* Transaction.to_dict as json.dump writes it: id an int, amount a float, the
\* rest strings
to_dict(t) ==
    JObject([id |-> JInt(t.id), date |-> JStr(t.date), amount |-> JFloat(t.amount),
             category |-> JStr(t.category), ttype |-> JStr(t.ttype),
             description |-> JStr(t.description)])

\* json.dump([t.to_dict() for t in transactions], f, indent=2)
json_dump(txs) == JsonText(JArray([i \in 1..Len(txs) |-> to_dict(txs[i])]))

Ok(v) == [kind |-> "ok", value |-> v]
Raise(exc) == [kind |-> "raise", exc |-> exc]

IsNumeral(s) == s # <<>> /\ \A i \in 1..Len(s) : IsDigit(s[i])

\* int(v) of a JSON value (strings: unsigned decimal numerals only)
py_int(v) ==
    IF v.t = "int" THEN Ok(v.n)
    ELSE IF v.t = "float" THEN Ok(IF v.x >= 0 THEN v.x \div 100 ELSE -((-v.x) \div 100))
    ELSE IF v.t = "str" THEN (IF IsNumeral(v.s) THEN Ok(DigitsValue(v.s)) ELSE Raise("ValueError"))
    ELSE Raise("TypeError")

\* float(v) of a JSON value, in cents (strings: unsigned decimal numerals only)
py_float(v) ==
    IF v.t = "int" THEN Ok(v.n * 100)
    ELSE IF v.t = "float" THEN Ok(v.x)
    ELSE IF v.t = "str" THEN (IF IsNumeral(v.s) THEN Ok(DigitsValue(v.s) * 100) ELSE Raise("ValueError"))
    ELSE Raise("TypeError")

RECURSIVE NatToStr(_)
NatToStr(n) == IF n < 10 THEN <<48 + n>> ELSE NatToStr(n \div 10) \o <<48 + (n % 10)>>

IntToStr(n) == IF n < 0 THEN <<45>> \o NatToStr(-n) ELSE NatToStr(n)

\* repr of a float given in cents: 3000.0, 45.2, 0.05
FloatToStr(x) ==
    LET a == abs(x)
        frac == a % 100
    IN (IF x < 0 THEN <<45>> ELSE <<>>) \o NatToStr(a \div 100) \o <<46>>
       \o (IF frac % 10 = 0 THEN NatToStr(frac \div 10)
           ELSE <<48 + (frac \div 10), 48 + (frac % 10)>>)

\* str(v) of a JSON value
py_str(v) ==
    IF v.t = "str" THEN v.s
    ELSE IF v.t = "int" THEN IntToStr(v.n)
    ELSE IF v.t = "float" THEN FloatToStr(v.x)
    ELSE <<78, 111, 110, 101>>

\* d.get(key, default) passed through str()
get_str(members, key, default) ==
    IF key \in DOMAIN members THEN py_str(members[key]) ELSE default

\* a plausible bug: the type is read under the key 'type', which no saved
\* record has, so every record loads with the default type
from_dict_wrongkey(d) ==
    IF d.t # "object" THEN Raise("TypeError")
    ELSE IF "id" \notin DOMAIN d.members THEN Raise("KeyError")
    ELSE IF py_int(d.members.id).kind = "raise" THEN py_int(d.members.id)
    ELSE IF "date" \notin DOMAIN d.members THEN Raise("KeyError")
    ELSE IF "amount" \notin DOMAIN d.members THEN Raise("KeyError")
    ELSE IF py_float(d.members.amount).kind = "raise" THEN py_float(d.members.amount)
    ELSE Ok(Transaction(py_int(d.members.id).value,
                        py_str(d.members.date),
                        py_float(d.members.amount).value,
                        get_str(d.members, "category", EmptyStr),
                        get_str(d.members, "type", ttype_expense),
                        get_str(d.members, "description", EmptyStr)))

\* Transaction.from_dict: the record, or the exception the first failing
\* field raises (d['id'] on a non-dict: TypeError; a missing key: KeyError)
from_dict(d) ==
    IF d.t # "object" THEN Raise("TypeError")
    ELSE IF "id" \notin DOMAIN d.members THEN Raise("KeyError")
    ELSE IF py_int(d.members.id).kind = "raise" THEN py_int(d.members.id)
    ELSE IF "date" \notin DOMAIN d.members THEN Raise("KeyError")
    ELSE IF "amount" \notin DOMAIN d.members THEN Raise("KeyError")
    ELSE IF py_float(d.members.amount).kind = "raise" THEN py_float(d.members.amount)
    ELSE Ok(Transaction(py_int(d.members.id).value,
                        py_str(d.members.date),
                        py_float(d.members.amount).value,
                        get_str(d.members, "category", EmptyStr),
                        get_str(d.members, "ttype", ttype_expense),
                        get_str(d.members, "description", EmptyStr)))

RECURSIVE from_dict_all(_)
\* [Transaction.from_dict(d) for d in items]: the first exception ends it
from_dict_all(items) ==
    IF items = <<>> THEN Ok(<<>>)
    ELSE LET h == from_dict(Head(items))
         IN IF h.kind = "raise" THEN h
            ELSE LET r == from_dict_all(Tail(items))
                 IN IF r.kind = "raise" THEN r ELSE Ok(<<h.value>> \o r.value)

\* [Transaction.from_dict(d) for d in data] for any JSON document: a dict
\* iterates over its keys and a string over its characters, which from_dict
\* cannot index by 'id'; a number or null is not iterable
comprehension(data) ==
    IF data.t = "array" THEN from_dict_all(data.items)
    ELSE IF data.t = "object"
         THEN (IF DOMAIN data.members = {} THEN Ok(<<>>) ELSE Raise("TypeError"))
    ELSE IF data.t = "str" THEN (IF data.s = <<>> THEN Ok(<<>>) ELSE Raise("TypeError"))
    ELSE Raise("TypeError")

\* the paths load_transactions tries, in order, when the global
\* DEFAULT_SAVE_FILE, which the body reads at each call, holds global
candidates_at(filename, global) ==
    LET c1 == IF filename # global
              THEN <<filename, global>> ELSE <<filename>>
        fallback == join(gettempdir, basename(filename))
    IN IF fallback \notin Range(c1) THEN Append(c1, fallback) ELSE c1

\* the same while the global still holds the value it was defined with
candidates(filename) == candidates_at(filename, DEFAULT_SAVE_FILE)

RECURSIVE load_from(_, _)
\* the loop of load_transactions: a missing path, an OSError on open and a
\* JSONDecodeError go on to the next path; any other exception leaves the
\* function; the first document read is returned
load_from(cands, fs) ==
    IF cands = <<>> THEN Ok(<<>>)
    ELSE LET f == fs[Head(cands)]
         IN IF ~f.exists THEN load_from(Tail(cands), fs)
            ELSE IF f.mode = "none" THEN load_from(Tail(cands), fs)
            ELSE IF ~f.text.valid THEN load_from(Tail(cands), fs)
            ELSE comprehension(f.text.doc)

load_transactions(filename, fs) == load_from(candidates(filename), fs)

\* load_transactions(filename) after the global has been reassigned
load_transactions_at(filename, fs, global) ==
    load_from(candidates_at(filename, global), fs)

\* whether open(path, 'w') succeeds
can_open_w(path, fs, dw) ==
    IF fs[path].exists THEN fs[path].mode = "rw" ELSE dw[path.dir]

\* _preferred_writable_path: filename when the write test in its directory
\* succeeds, else the temp directory with the base name
preferred_writable_path(filename, dw) ==
    IF dw[dirname_or_dot(filename)] THEN filename
    ELSE join(gettempdir, basename(filename))

\* save_transactions: the value returned, the target chosen and the files after
save_transactions(txs, filename, fs, dw) ==
    LET target == preferred_writable_path(filename, dw)
    IN IF can_open_w(target, fs, dw)
       THEN [ok |-> TRUE, target |-> target,
             files |-> [fs EXCEPT ![target] =
                           File(IF fs[target].exists THEN fs[target].mode ELSE "rw",
                                json_dump(txs))]]
       ELSE [ok |-> FALSE, target |-> target, files |-> fs]

\* the two records of run_self_tests' txs2
txs2 ==
    LET a1 == add_transaction(<<>>, d2025_01_01, 100000, Salary, ttype_income, Pay).transactions
    IN add_transaction(a1, d2025_01_02, -20000, Groceries, ttype_expense, Food).transactions

\* the collections that are saved
SavedTxs == {<<>>, txs2, sample_data}

\* a collection saved by an earlier run
StaleTxs == <<Transaction(1, d2024_12_31, -5000, Salary, ttype_income, Refund)>>

\* what a path can hold before the program runs: nothing, an earlier save
\* (writable, read-only), an unreadable file, invalid JSON, a JSON object
\* instead of an array, an element without id, an element with a non-numeric
\* id, and an element with numbers given as strings and no optional keys
FilePool ==
    << NoFile,
       File("rw", json_dump(StaleTxs)),
       File("r", json_dump(StaleTxs)),
       File("none", InvalidJson),
       File("rw", InvalidJson),
       File("rw", JsonText(to_dict(StaleTxs[1]))),
       File("rw", JsonText(JArray(<<JObject([date |-> JStr(d2025_01_01), amount |-> JFloat(100)])>>))),
       File("rw", JsonText(JArray(<<JObject([id |-> JStr(Pay), date |-> JStr(d2025_01_01),
                                             amount |-> JFloat(100)])>>))),
       File("rw", JsonText(JArray(<<JObject([id |-> JStr(<<55>>), date |-> JStr(d2025_01_01),
                                             amount |-> JInt(5), category |-> JInt(12)])>>))) >>

InitPersist ==
    /\ transactions \in SavedTxs
    /\ op = "start"
    /\ args = <<>>
    /\ ret = <<>>
    /\ \E f \in [Paths -> 1..Len(FilePool)] : files = [p \in Paths |-> FilePool[f[p]]]
    /\ dirWritable \in [Dirs -> BOOLEAN]
    /\ default_save_file = DEFAULT_SAVE_FILE
    /\ pc = NotRunning

\* ok = save_transactions(txs, filename)
Save ==
    /\ \E filename \in Paths :
        LET r == save_transactions(transactions, filename, files, dirWritable)
        IN /\ op' = "save"
           /\ args' = [filename |-> filename]
           /\ ret' = [ok |-> r.ok, target |-> r.target]
           /\ files' = r.files
    /\ UNCHANGED <<transactions, dirWritable, default_save_file, pc>>

\* txs_rt = load_transactions(filename)
Load ==
    /\ \E filename \in Paths :
        /\ op' = "load"
        /\ args' = [filename |-> filename]
        /\ ret' = load_transactions(filename, files)
    /\ UNCHANGED <<transactions, files, dirWritable, default_save_file, pc>>

NextPersist == Save \/ Load

SpecPersist == InitPersist /\ [][NextPersist]_vars

----------------------------------------------------------------------------
(* The program started with --file, its menu loop and its exit *)

\* how many times the program is started
MaxRuns == 2

\* the menu adds records while the next id is at most this
MaxMenuId == 1

\* what a path can hold before the first start: nothing or an earlier save
MainFilePool == <<NoFile, File("rw", json_dump(StaleTxs))>>

InitMain ==
    /\ transactions = <<>>
    /\ op = "start"
    /\ args = <<>>
    /\ ret = <<>>
    /\ \E f \in [Paths -> 1..Len(MainFilePool)] :
          files = [p \in Paths |-> MainFilePool[f[p]]]
    /\ dirWritable \in [Dirs -> BOOLEAN]
    /\ default_save_file = DEFAULT_SAVE_FILE
    /\ pc = NotRunning

\* python personal_finance_tracker.py --file <file>: a new process defines
\* the functions, reassigns the global to args.file and calls
\* menu(DEFAULT_SAVE_FILE), whose first lines load the collection and, when
\* it is empty, offer the sample data; an exception of the load ends the process
Main ==
    /\ pc.at = "shell"
    /\ pc.runs < MaxRuns
    /\ \E file \in Paths, answer \in {"y", "N"} :
        LET loaded == load_transactions_at(file, files, file)
        IN /\ op' = "main"
           /\ args' = [file |-> file]
           /\ ret' = loaded
           /\ default_save_file' = file
           /\ IF loaded.kind = "raise"
              THEN /\ transactions' = <<>>
                   /\ pc' = [at |-> "shell", runs |-> pc.runs + 1]
              ELSE /\ transactions' = IF loaded.value = <<>> /\ answer = "y"
                                      THEN sample_data ELSE loaded.value
                   /\ pc' = [at |-> "menu", runs |-> pc.runs + 1]
    /\ UNCHANGED <<files, dirWritable>>

\* choice 1
MenuAdd ==
    /\ pc.at = "menu"
    /\ next_id(transactions) <= MaxMenuId
    /\ \E in \in AddInputs :
        LET r == add_transaction(transactions, in.date, in.amount, in.category,
                                 in.ttype, in.description)
        IN /\ transactions' = r.transactions
           /\ op' = "add"
           /\ args' = in
           /\ ret' = r.tx
    /\ UNCHANGED <<files, dirWritable, default_save_file, pc>>

\* choice 12
MenuDelete ==
    /\ pc.at = "menu"
    /\ \E tid \in 0..(MaxMenuId + 1) :
        LET r == delete_by_id(transactions, tid)
        IN /\ transactions' = r.transactions
           /\ op' = "delete"
           /\ args' = [tid |-> tid]
           /\ ret' = [found |-> r.found]
    /\ UNCHANGED <<files, dirWritable, default_save_file, pc>>

\* choice 9 with the enter key: fn is the global as it is now
MenuSave ==
    /\ pc.at = "menu"
    /\ LET fn == default_save_file
           r == save_transactions(transactions, fn, files, dirWritable)
       IN /\ op' = "save"
          /\ args' = [filename |-> fn]
          /\ ret' = [ok |-> r.ok, target |-> r.target]
          /\ files' = r.files
    /\ UNCHANGED <<transactions, dirWritable, default_save_file, pc>>

\* choice 0: on 'y', save_transactions(transactions) with the filename its
\* parameter was given when the function was defined, and the message
\* 'Saved to' with the global as it is now; the process ends
Exit ==
    /\ pc.at = "menu"
    /\ \E answer \in {"y", "N"} :
        /\ op' = "exit"
        /\ args' = [answer |-> answer]
        /\ IF answer = "y"
           THEN LET r == save_transactions(transactions, DEFAULT_SAVE_FILE,
                                           files, dirWritable)
                IN /\ files' = r.files
                   /\ ret' = [ok |-> r.ok, target |-> r.target,
                              reported |-> default_save_file]
           ELSE /\ files' = files
                /\ ret' = [ok |-> FALSE, target |-> default_save_file,
                           reported |-> default_save_file]
    /\ pc' = [at |-> "shell", runs |-> pc.runs]
    /\ UNCHANGED <<transactions, dirWritable, default_save_file>>

NextMain == Main \/ MenuAdd \/ MenuDelete \/ MenuSave \/ Exit

SpecMain == InitMain /\ [][NextMain]_vars

----------------------------------------------------------------------------
(* Claims about save and load (checked under SpecPersist) *)

\* the directory of path takes new files and path is absent or a writable file
Writable(path) ==
    /\ dirWritable[dirname_or_dot(path)]
    /\ (files[path].exists => files[path].mode = "rw")

C2_LoadAfterAnySave ==
    [][op = "save" /\ ret.ok /\ op' = "load" /\ args'.filename = args.filename =>
            ret' = Ok(transactions)]_vars

\* a candidate the load is said to skip: missing, unreadable, invalid JSON or
\* content that does not convert to records
Skipped(path) ==
    \/ ~files[path].exists
    \/ files[path].mode = "none"
    \/ ~files[path].text.valid
    \/ comprehension(files[path].text.doc).kind = "raise"

RECURSIVE FirstGood(_)
\* the content of the first candidate that is not skipped, or the empty list
FirstGood(cands) ==
    IF cands = <<>> THEN <<>>
    ELSE IF Skipped(Head(cands)) THEN FirstGood(Tail(cands))
    ELSE comprehension(files[Head(cands)].text.doc).value

\* C3: load_transactions never raises: it tries the requested path, the default
\* path and the temp-directory variant in that order, skips a candidate that is
\* missing, unreadable, corrupt or non-conforming, and returns the content of
\* the first candidate that exists and parses, or the empty collection.
C3_LoadNeverRaises ==
    op = "load" =>
        ret = Ok(FirstGood(<<args.filename>>
                           \o (IF args.filename # DEFAULT_SAVE_FILE
                               THEN <<DEFAULT_SAVE_FILE>> ELSE <<>>)
                           \o (IF join(gettempdir, args.filename.base)
                                    \notin {args.filename, DEFAULT_SAVE_FILE}
                               THEN <<join(gettempdir, args.filename.base)>> ELSE <<>>)))

\* open(path, 'w') would succeed
CanWrite(path) ==
    IF files[path].exists THEN files[path].mode = "rw" ELSE dirWritable[path.dir]

\* C4: save_transactions never raises and never changes txs: it writes the
\* full collection to p when p can be written, otherwise it writes it to the
\* temp directory under the base name of p and returns True; it returns False
\* only when the temp-directory fallback cannot be written either.
C4_SaveFallsBack ==
    [][op' = "save" =>
        LET p == args'.filename
            fallback == join(gettempdir, args'.filename.base)
        IN /\ transactions' = transactions
           /\ ret'.ok \in BOOLEAN
           /\ (Writable(p) =>
                    ret'.ok /\ files'[p].text = json_dump(transactions))
           /\ (~Writable(p) /\ CanWrite(fallback) =>
                    ret'.ok /\ files'[fallback].text = json_dump(transactions))
           /\ (~ret'.ok => ~CanWrite(fallback))]_vars

----------------------------------------------------------------------------
(* Claims about the collection (checked under SpecColl) *)

Ids(txs) == {txs[i].id : i \in 1..Len(txs)}

IdsPositiveDistinct ==
    /\ \A i \in 1..Len(transactions) : transactions[i].id > 0
    /\ \A i, j \in 1..Len(transactions) : i # j => transactions[i].id # transactions[j].id

\* every record of the collection after a step is a record of the collection
\* before it, unchanged, or the record the step appended
RecordsKept ==
    \A i \in 1..Len(transactions') :
        \/ \E j \in 1..Len(transactions) : transactions'[i] = transactions[j]
        \/ op' = "add" /\ i = Len(transactions') /\ transactions'[i] = ret'

\* C5: in every state reached from the empty collection or from sample_data by
\* adds and deletes-by-id, all ids are positive and pairwise distinct, and no
\* step changes a record that stays in the collection (so its id never changes).
C5_IdsUniqueImmutable == [](IdsPositiveDistinct) /\ [][RecordsKept]_vars

\* an add has been made after a delete left a gap below the largest id
C5_Witness ==
    /\ op = "add"
    /\ Len(transactions) >= 3
    /\ ret.id > Len(transactions)
    /\ ret = transactions[Len(transactions)]

\* C8 as stated: the id of a deleted record is never given to a later record
\* (each assigned id exceeds every id assigned before). Stated on the step
\* that follows a successful delete: the add does not reuse the deleted id.
C8_NeverReused ==
    [][op = "delete" /\ ret.found /\ op' = "add" => ret'.id # args.tid]_vars

MaxOf(S) == CHOOSE m \in S : \A x \in S : x <= m

\* C8 amended: each id assigned by add_transaction is the largest id currently
\* in the collection plus one (1 if the collection is empty), hence greater
\* than every id currently in the collection; the new record is appended.
C8_MaxPlusOne ==
    [][op' = "add" =>
        /\ ret'.id = (IF transactions = <<>> THEN 1 ELSE MaxOf(Ids(transactions)) + 1)
        /\ \A i \in Ids(transactions) : ret'.id > i
        /\ transactions' = Append(transactions, ret')]_vars

\* an add that follows deletes: the collection is shorter than its largest id
C8_Witness ==
    /\ op = "add"
    /\ Len(transactions) >= 2
    /\ ret.id = MaxOf(Ids(transactions))
    /\ ret.id > Len(transactions) + 1

Front(s) == SubSeq(s, 1, Len(s) - 1)

\* C9: an add appends one record with the id it returns, and a delete-by-id of
\* that id right after it removes exactly that record, so the collection is
\* restored (same records, same order, same ids); a delete-by-id of an id that
\* is not in the collection changes nothing and reports not found.
C9_AddDeleteRestores ==
    [][/\ (op' = "add" => /\ Front(transactions') = transactions
                           /\ transactions'[Len(transactions')].id = ret'.id)
       /\ (op = "add" /\ op' = "delete" /\ args'.tid = ret.id =>
                /\ ret'.found
                /\ transactions' = Front(transactions))
       /\ (op' = "delete" /\ args'.tid \notin Ids(transactions) =>
                /\ ~ret'.found
                /\ transactions' = transactions)]_vars

\* the 8 sample records again, after id 9 was added and deleted
C9_Witness ==
    /\ op = "delete"
    /\ args.tid = MaxOf(Ids(sample_data)) + 1
    /\ ret.found
    /\ transactions = sample_data

----------------------------------------------------------------------------
(* Claims about the pure functions (checked under SpecQuery) *)

RECURSIVE SumAbs(_)
SumAbs(s) == IF s = <<>> THEN 0 ELSE abs(Head(s).amount) + SumAbs(Tail(s))

\* C6: balance_summary normalizes signed expense amounts: expenses is the sum
\* of abs(amount) over the expense records, each counted once, income is the
\* sum of amount over the income records, and savings = income - expenses
\* (stated for collections whose records are all of type income or expense).
C6_Normalized ==
    op = "balance" /\ (\A t \in Range(transactions) : t.ttype \in {ttype_income, ttype_expense}) =>
        /\ ret.income = SumSeq(MapAmount(SelectSeq(transactions, IsIncome)))
        /\ ret.expenses = SumAbs(SelectSeq(transactions, LAMBDA t : t.ttype = ttype_expense))
        /\ ret.savings = ret.income - ret.expenses

\* what one record adds to expenses, by its type and the sign of its amount
Contribution(t) ==
    IF t.ttype = ttype_expense /\ t.amount >= 0 THEN t.amount
    ELSE IF t.ttype = ttype_expense /\ t.amount < 0 THEN 2 * (-t.amount)
    ELSE IF t.ttype # ttype_income /\ t.amount < 0 THEN -t.amount
    ELSE 0

RECURSIVE SumContribution(_)
SumContribution(s) ==
    IF s = <<>> THEN 0 ELSE Contribution(Head(s)) + SumContribution(Tail(s))

Count(s, x) == Cardinality({i \in 1..Len(s) : s[i] = x})

IsPermutation(a, b) ==
    /\ Len(a) = Len(b)
    /\ \A x \in Range(a) \cup Range(b) : Count(a, x) = Count(b, x)

\* no record of s has a smaller key than a record before it
NonDecreasing(sort_key, s) ==
    \A i, j \in 1..Len(s) : i < j => ~key_lt(sort_key, s[j], s[i])

NonIncreasing(sort_key, s) ==
    \A i, j \in 1..Len(s) : i < j => ~key_lt(sort_key, s[i], s[j])

SameKey(sort_key, a, b) == ~key_lt(sort_key, a, b) /\ ~key_lt(sort_key, b, a)

\* the records of out that share a key are in the order they have in inp
EqualKeysInInputOrder(sort_key, inp, out) ==
    \A x \in Range(inp) :
        SelectSeq(out, LAMBDA t : SameKey(sort_key, t, x))
            = SelectSeq(inp, LAMBDA t : SameKey(sort_key, t, x))

\* C10 as stated: the result is a permutation of txs, txs is unchanged, with
\* reverse=false it is in non-decreasing key order with equal keys in input
\* order, and with reverse=true it is exactly the reverse=false result read
\* backwards.
C10_ReverseIsBackwards ==
    [][op' = "list" =>
        /\ transactions' = transactions
        /\ IsPermutation(ret', transactions)
        /\ (~args'.reverse =>
                /\ NonDecreasing(args'.sort_key, ret')
                /\ EqualKeysInInputOrder(args'.sort_key, transactions, ret'))
        /\ (args'.reverse =>
                ret' = Reverse(list_transactions(transactions, args'.sort_key, FALSE)))]_vars

\* C10 amended: the result is a permutation of txs, txs is unchanged, with
\* reverse=false it is in non-decreasing key order and with reverse=true in
\* non-increasing key order, and in both cases records of equal key keep
\* their original relative order.
C10_StableBothWays ==
    [][op' = "list" =>
        /\ transactions' = transactions
        /\ IsPermutation(ret', transactions)
        /\ (~args'.reverse => NonDecreasing(args'.sort_key, ret'))
        /\ (args'.reverse => NonIncreasing(args'.sort_key, ret'))
        /\ EqualKeysInInputOrder(args'.sort_key, transactions, ret')]_vars

\* a reversed listing of records that tie on the key and of records that do
\* not, which is not the input order
C10_Witness ==
    /\ op = "list"
    /\ args.reverse
    /\ ret # transactions
    /\ \E i, j, k \in 1..Len(ret) :
        /\ i < j
        /\ ret[i] # ret[j]
        /\ SameKey(args.sort_key, ret[i], ret[j])
        /\ key_lt(args.sort_key, ret[k], ret[i])

\* the expense records of txs whose date starts with month
ExpensesOfMonth(txs, month) ==
    SelectSeq(txs, LAMBDA t : t.ttype = ttype_expense /\ SubSeq(t.date, 1, 7) = month)

\* C11: monthly_spending(txs) returns a mapping whose keys are exactly the
\* YYYY-MM prefixes of the dates of the expense records of txs, in ascending
\* key order, and whose value for a key is the sum of abs(amount) over the
\* expense records with that prefix; income records add nothing, even when
\* negative, and txs is unchanged.
C11_MonthlyTotals ==
    [][op' = "monthly" =>
        /\ transactions' = transactions
        /\ {ret'[i][1] : i \in 1..Len(ret')}
             = {SubSeq(t.date, 1, 7) : t \in {x \in Range(transactions) : x.ttype = ttype_expense}}
        /\ \A i, j \in 1..Len(ret') : i < j => str_lt(ret'[i][1], ret'[j][1])
        /\ \A i \in 1..Len(ret') :
             ret'[i][2] = SumAbs(ExpensesOfMonth(transactions, ret'[i][1]))]_vars

\* totals of two months whose expenses are listed latest month first, one of
\* them negative, beside a negative income
C11_Witness ==
    /\ op = "monthly"
    /\ Len(ret) = 2
    /\ Len(transactions) >= 3
    /\ \E i, j, k \in 1..Len(transactions) :
        /\ i < j
        /\ transactions[i].ttype = ttype_expense
        /\ transactions[j].ttype = ttype_expense /\ transactions[j].amount < 0
        /\ str_lt(SubSeq(transactions[j].date, 1, 7), SubSeq(transactions[i].date, 1, 7))
        /\ transactions[k].ttype = ttype_income /\ transactions[k].amount < 0

----------------------------------------------------------------------------
(* Claim about a run started with --file (checked under SpecMain) *)

\* the file at path holds exactly the collection txs
Holds(fs, path, txs) ==
    IF fs[path].exists THEN fs[path].text = json_dump(txs) ELSE FALSE

\* C12: when the program is started with --file P, P is the default save
\* location for the whole run: the menu loads its collection from P when P
\* is there; for a writable P the auto-save chosen at exit reports P and
\* leaves the current collection in P; and the next start with --file P
\* then loads exactly the collection that was auto-saved
C12_FileIsDefaultForRun ==
    [][/\ op' = "main" /\ files[args'.file].exists
            => ret' = comprehension(files[args'.file].text.doc)
       /\ op' = "exit" /\ args'.answer = "y" /\ Writable(default_save_file)
            => /\ ret'.reported = default_save_file
               /\ Holds(files', default_save_file, transactions)
       /\ ( /\ op = "exit" /\ args.answer = "y" /\ Writable(default_save_file)
            /\ op' = "main" /\ args'.file = default_save_file )
            => ret' = Ok(transactions)]_vars

====
